---- MODULE Spec2Model ----
(***************************************************************************)
(* tools/integrate_codes.py: bundle the files under src/ and the entry     *)
(* point given by --main_path into integrated.rs.                          *)
(*                                                                         *)
(* Lines, paths and the output file are strings, as in the script: a line  *)
(* carries its terminator "\n" (only the last line of a file may lack it), *)
(* and the output file is the text written to it so far.                   *)
(***************************************************************************)
EXTENDS Integers, Sequences, FiniteSets, TLC

VARIABLES
    argv,        \* input: the value given to --main_path, or None when the option is absent
    root_exists, \* input: whether the directory src exists
    tree,        \* input: the regular files under src/, in the order the scan returns them
    fs,          \* input: path -> state of the file when the script opens it
    pc,          \* position of the script
    main_path,   \* args.main_path
    paths,       \* the list paths
    out_file,    \* the text of integrated.rs
    handle,      \* the output handle: "none", "open", "closed"
    i,           \* position of the for loop in paths (1-based)
    file_lines,  \* what file.readlines() returned for the last file read
    lines,       \* the variable lines (after the truncation of line 28)
    opens,       \* the paths handed to open(path, "r"), in order
    err,         \* the exception that ended the run, "" when none
    run,         \* number of the current invocation
    prev         \* the text of integrated.rs when the previous invocation ended

vars == <<argv, root_exists, tree, fs, pc, main_path, paths, out_file, handle,
          i, file_lines, lines, opens, err, run, prev>>

inputs == <<argv, root_exists, tree, fs>>

-----------------------------------------------------------------------------
(* Bounds *)

MaxLines == 2       \* lines per file when the file's content is left open
MaxLinesFixed == 1  \* lines per file when the file system is fixed at the start
MaxRuns == 2        \* successive invocations on one file system

-----------------------------------------------------------------------------
(* Program constants *)

None == "<None>"

out_path == "integrated.rs"

use_libs == <<"std::io::*", "std::collections::*", "std::cmp::*", "std::ops::*">>

blacklist == <<"use ", "mod ", "///">>

test_flag == "#[cfg(test)]\n"

bin_segment == "/bin/"

-----------------------------------------------------------------------------
(* The inputs the model draws from *)

\* Complete lines a file may hold.
TermLines ==
    { "use a;\n", "pub mod b;\n", "/// d\n", "fn f(){}\n",
      "    #[cfg(test)]\n", "#[cfg(test)]\n" }

\* Last lines of a file that does not end in a line break.
UntermLines == { "#[cfg(test)]" }

TermSeqs(n) == UNION { [1..k -> TermLines] : k \in 0..n }

\* What readlines() can return for a file of at most n lines.
FileContents(n) ==
    TermSeqs(n) \cup { Append(s, u) : s \in TermSeqs(n - 1), u \in UntermLines }

FileOf(ls) == [kind |-> "file", lines |-> ls]

Failure(k) == [kind |-> k, lines |-> <<>>]

\* The file's state is whatever the environment holds when it is opened.
Unknown == Failure("any")

FailureKinds == {"missing", "denied", "undecodable"}

FileStates(n) ==
    { FileOf(ls) : ls \in FileContents(n) } \cup { Failure(k) : k \in FailureKinds }

\* The path has a directory segment bin.
InBinDir(path) ==
    \E k \in 1..(Len(path) - 4) : SubSeq(path, k, k + 4) = "/bin/"

\* A file under a /bin/ directory, as far as a run could tell.
BinFileStates == { FileOf(<<"fn f(){}\n">>), Failure("missing"), Failure("denied") }

ScanPool == {"src/a.rs", "src/bin/b.rs"}

EntryPool == {"main.rs", "src/bin/main.rs"}

\* The orders in which a scan can return the files of a subset of ScanPool.
Trees ==
    { t \in UNION { [1..k -> ScanPool] : k \in 0..Cardinality(ScanPool) } :
        \A a, b \in 1..Len(t) : a # b => t[a] # t[b] }

Range(s) == { s[k] : k \in 1..Len(s) }

Listed(t, m) == Range(t) \cup (IF m = None THEN {} ELSE {m})

-----------------------------------------------------------------------------
(* Helpers of the script *)

\* word in line
Contains(word, line) ==
    \E k \in 1..(Len(line) - Len(word) + 1) :
        SubSeq(line, k, k + Len(word) - 1) = word

\* lines.index(x), for x in lines
Index(ls, x) == CHOOSE k \in 1..Len(ls) : ls[k] = x /\ \A j \in 1..(k - 1) : ls[j] # x

\* "".join(chunks): what writelines(chunks) appends
RECURSIVE Concat(_)
Concat(chunks) ==
    IF chunks = <<>> THEN "" ELSE Head(chunks) \o Concat(Tail(chunks))

\* [f"use {lib};\n" for lib in use_libs]
PreludeNoBreak == [k \in 1..Len(use_libs) |-> "use " \o use_libs[k] \o ";"]
PreludeLines == [k \in 1..Len(use_libs) |-> "use " \o use_libs[k] \o ";\n"]

\* glob.glob("src/**", recursive=True) filtered by os.path.isfile
Glob(exists, t) == IF exists THEN t ELSE <<>>

\* paths after lines 10-11
EntryFirst(exists, t, m) == <<m>> \o Glob(exists, t)
BuildList(exists, t, m) == Append(Glob(exists, t), m)

\* "/bin/" in path
SkippedPrefix(path) == SubSeq(path, 1, Len(bin_segment)) = bin_segment
Skipped(path) == Contains(bin_segment, path)

\* lines 26-28
TruncateAfter(ls) ==
    IF test_flag \in Range(ls) THEN SubSeq(ls, 1, Index(ls, test_flag)) ELSE ls
Truncate(ls) ==
    IF test_flag \in Range(ls) THEN SubSeq(ls, 1, Index(ls, test_flag) - 1) ELSE ls

\* all([word not in line for word in blacklist])
KeepPrefix(line) ==
    \A w \in Range(blacklist) : SubSeq(line, 1, Len(w)) # w
Keep(line) == \A w \in Range(blacklist) : ~Contains(w, line)

\* lines 31-35
Filter(ls) == SelectSeq(ls, Keep)

\* open(out_path, mode="w"): the text of the file once opened
OpenAppend(old) == old
OpenWrite(old) == ""

\* What open(path) and readlines() can meet at path.
ReadOutcomes(path) ==
    IF fs[path] = Unknown THEN FileStates(MaxLines) ELSE {fs[path]}

OpenError(kind) ==
    IF kind = "missing" THEN "FileNotFoundError" ELSE "PermissionError"

-----------------------------------------------------------------------------
(* Initial states *)

Fresh ==
    /\ pc = "start"
    /\ main_path = None
    /\ paths = <<>>
    /\ handle = "none"
    /\ i = 0
    /\ file_lines = <<>>
    /\ lines = <<>>
    /\ opens = <<>>
    /\ err = ""
    /\ run = 1
    /\ prev = ""

InitInputs ==
    /\ argv \in EntryPool \cup {None}
    /\ root_exists \in BOOLEAN
    /\ tree \in (IF root_exists THEN Trees ELSE {<<>>})
    /\ out_file \in {"", "// stale\n"}

\* Files are whatever the environment holds when they are opened.
Init ==
    /\ InitInputs
    /\ fs = [p \in Listed(tree, argv) |-> Unknown]
    /\ Fresh

\* The file system is fixed for the whole behaviour.
InitFixed ==
    /\ InitInputs
    /\ \E f \in [{p \in Listed(tree, argv) : ~InBinDir(p)} -> FileStates(MaxLinesFixed)] :
          \E g \in [{p \in Listed(tree, argv) : InBinDir(p)} -> BinFileStates] :
             fs = [p \in Listed(tree, argv) |-> IF InBinDir(p) THEN g[p] ELSE f[p]]
    /\ Fresh

-----------------------------------------------------------------------------
(* The script, top to bottom *)

\* lines 5-8
ParseArgs ==
    /\ pc = "start"
    /\ main_path' = argv
    /\ pc' = "parsed"
    /\ UNCHANGED <<inputs, paths, out_file, handle, i, file_lines, lines, opens,
                   err, run, prev>>

\* lines 10-11
BuildPaths ==
    /\ pc = "parsed"
    /\ paths' = BuildList(root_exists, tree, main_path)
    /\ pc' = "scanned"
    /\ UNCHANGED <<inputs, main_path, out_file, handle, i, file_lines, lines,
                   opens, err, run, prev>>

\* lines 18-19
OpenOutput ==
    /\ pc = "scanned"
    /\ handle' = "open"
    /\ out_file' = OpenWrite(out_file) \o Concat(PreludeLines)
    /\ i' = 1
    /\ pc' = "loop"
    /\ UNCHANGED <<inputs, main_path, paths, file_lines, lines, opens, err, run,
                   prev>>

InLoop == pc = "loop" /\ i <= Len(paths)

Opening == InLoop /\ paths[i] # None /\ ~Skipped(paths[i])

\* line 21 on args.main_path = None
FailNone ==
    /\ InLoop
    /\ paths[i] = None
    /\ err' = "TypeError"
    /\ pc' = "abort"
    /\ handle' = "closed"
    /\ UNCHANGED <<inputs, main_path, paths, out_file, i, file_lines, lines,
                   opens, run, prev>>

\* the file is opened and read before the path is looked at
SkipAfterRead ==
    /\ InLoop
    /\ paths[i] # None
    /\ Skipped(paths[i])
    /\ opens' = Append(opens, paths[i])
    /\ \E st \in ReadOutcomes(paths[i]) :
          IF st.kind = "file"
          THEN /\ i' = i + 1
               /\ UNCHANGED <<pc, handle, err>>
          ELSE /\ pc' = "abort"
               /\ handle' = "closed"
               /\ err' = IF st.kind = "undecodable" THEN "UnicodeDecodeError"
                         ELSE OpenError(st.kind)
               /\ UNCHANGED i
    /\ UNCHANGED <<inputs, main_path, paths, out_file, file_lines, lines, run, prev>>

\* lines 21-22
SkipBin ==
    /\ InLoop
    /\ paths[i] # None
    /\ Skipped(paths[i])
    /\ i' = i + 1
    /\ UNCHANGED <<inputs, pc, main_path, paths, out_file, handle, file_lines,
                   lines, opens, err, run, prev>>

\* the failure to open is swallowed and the loop goes on
FailOpenSwallowed ==
    /\ InLoop /\ paths[i] # None /\ ~Skipped(paths[i])
    /\ \E st \in ReadOutcomes(paths[i]) : st.kind \in {"missing", "denied"}
    /\ opens' = Append(opens, paths[i])
    /\ i' = i + 1
    /\ UNCHANGED <<inputs, pc, main_path, paths, out_file, handle, file_lines,
                   lines, err, run, prev>>

\* line 24 raising
FailOpen ==
    /\ Opening
    /\ \E st \in ReadOutcomes(paths[i]) :
          /\ st.kind \in {"missing", "denied"}
          /\ err' = OpenError(st.kind)
    /\ opens' = Append(opens, paths[i])
    /\ pc' = "abort"
    /\ handle' = "closed"
    /\ UNCHANGED <<inputs, main_path, paths, out_file, i, file_lines, lines, run,
                   prev>>

\* the undecodable file is dropped and the loop goes on
FailDecodeSwallowed ==
    /\ InLoop /\ paths[i] # None /\ ~Skipped(paths[i])
    /\ \E st \in ReadOutcomes(paths[i]) : st.kind = "undecodable"
    /\ opens' = Append(opens, paths[i])
    /\ i' = i + 1
    /\ UNCHANGED <<inputs, pc, main_path, paths, out_file, handle, file_lines,
                   lines, err, run, prev>>

\* line 25 raising
FailDecode ==
    /\ Opening
    /\ \E st \in ReadOutcomes(paths[i]) : st.kind = "undecodable"
    /\ err' = "UnicodeDecodeError"
    /\ opens' = Append(opens, paths[i])
    /\ pc' = "abort"
    /\ handle' = "closed"
    /\ UNCHANGED <<inputs, main_path, paths, out_file, i, file_lines, lines, run,
                   prev>>

\* lines 24-36
ProcessFile ==
    /\ Opening
    /\ \E st \in ReadOutcomes(paths[i]) :
          /\ st.kind = "file"
          /\ file_lines' = st.lines
          /\ lines' = Truncate(st.lines)
          /\ out_file' = out_file \o Concat(Filter(Truncate(st.lines)))
    /\ opens' = Append(opens, paths[i])
    /\ i' = i + 1
    /\ UNCHANGED <<inputs, pc, main_path, paths, handle, err, run, prev>>

\* the loop is exhausted and the with block of line 18 closes the handle
Finish ==
    /\ pc = "loop"
    /\ i > Len(paths)
    /\ pc' = "done"
    /\ handle' = "closed"
    /\ UNCHANGED <<inputs, main_path, paths, out_file, i, file_lines, lines,
                   opens, err, run, prev>>

\* the script is started again on the same inputs
Rerun ==
    /\ pc \in {"done", "abort"}
    /\ run < MaxRuns
    /\ run' = run + 1
    /\ prev' = out_file
    /\ pc' = "start"
    /\ main_path' = None
    /\ paths' = <<>>
    /\ handle' = "none"
    /\ i' = 0
    /\ file_lines' = <<>>
    /\ lines' = <<>>
    /\ opens' = <<>>
    /\ err' = ""
    /\ UNCHANGED <<inputs, out_file>>

Next ==
    \/ ParseArgs
    \/ BuildPaths
    \/ OpenOutput
    \/ FailNone
    \/ SkipBin
    \/ FailOpen
    \/ FailDecode
    \/ ProcessFile
    \/ Finish

NextFixed == Next \/ Rerun

Spec == Init /\ [][Next]_vars

SpecFixed == InitFixed /\ [][NextFixed]_vars

-----------------------------------------------------------------------------
(* What the properties are stated with: the expected output, spelled out     *)
(* from the literal prelude, marker and excluded substrings.                 *)

PreludeText ==
    "use std::io::*;\nuse std::collections::*;\nuse std::cmp::*;\nuse std::ops::*;\n"

Marker == "#[cfg(test)]\n"

Excluded == {"use ", "mod ", "///"}

HasSub(w, s) == \E k \in 1..Len(s) : k + Len(w) - 1 <= Len(s) /\ SubSeq(s, k, k + Len(w) - 1) = w

\* The lines of a text, each with its terminator, as a reader would split it.
RECURSIVE SplitLines(_)
SplitLines(text) ==
    IF text = "" THEN <<>>
    ELSE LET brk == { k \in 1..Len(text) : SubSeq(text, k, k) = "\n" }
         IN  IF brk = {} THEN <<text>>
             ELSE LET k == CHOOSE x \in brk : \A y \in brk : x <= y
                  IN  <<SubSeq(text, 1, k)>> \o SplitLines(SubSeq(text, k + 1, Len(text)))

\* The text of the lines of ls at the indices S, in ascending order.
RECURSIVE TextAt(_, _)
TextAt(ls, S) ==
    IF S = {} THEN ""
    ELSE LET k == CHOOSE x \in S : \A y \in S : x <= y
         IN  ls[k] \o TextAt(ls, S \ {k})

\* Index k of ls lies strictly before the first marker line, if there is one.
BeforeMarker(ls, k) == \A j \in 1..k : ls[j] # Marker

\* The indices of the lines of ls that are to be emitted.
Emitted(ls) ==
    { k \in 1..Len(ls) : BeforeMarker(ls, k) /\ \A w \in Excluded : ~HasSub(w, ls[k]) }

\* The contribution of the file at path p of a fixed file system.
Contribution(p) ==
    IF InBinDir(p) \/ fs[p].kind # "file" THEN ""
    ELSE TextAt(fs[p].lines, Emitted(fs[p].lines))

\* The contributions of the paths of ps, in order.
RECURSIVE Body(_)
Body(ps) == IF ps = <<>> THEN "" ELSE Contribution(Head(ps)) \o Body(Tail(ps))

NotInBin(p) == ~InBinDir(p)

\* A step of the loop that read a file and appended its contribution.
FileStep == pc = "loop" /\ pc' = "loop" /\ opens' # opens

Ended == pc \in {"done", "abort"}

ReadErrors == {"FileNotFoundError", "PermissionError", "UnicodeDecodeError"}

-----------------------------------------------------------------------------
(* Properties *)

\* C1: once the output file has been opened, its first four lines are the four
\* use lines of the prelude, in order, in every later state of the run, an
\* abort included.
C1_PreludeFirst ==
    handle # "none" =>
        /\ Len(SplitLines(out_file)) >= 4
        /\ SubSeq(SplitLines(out_file), 1, 4) =
              << "use std::io::*;\n", "use std::collections::*;\n",
                 "use std::cmp::*;\n", "use std::ops::*;\n" >>

\* C1 witness: a run aborted after a file had contributed; the output had been opened.
C1_Witness ==
    /\ pc = "abort"
    /\ handle = "closed"
    /\ Len(opens) = 2
    /\ Len(SplitLines(out_file)) > 4

\* C2: when the file read holds the marker line, the text appended for it is made
\* only of lines that stand strictly before the first marker line: no line at or
\* after the marker's index is emitted.
C2_TruncatedAtMarker ==
    [][ (FileStep /\ \E k \in 1..Len(file_lines') : file_lines'[k] = Marker) =>
           \E S \in SUBSET { k \in 1..Len(file_lines') : BeforeMarker(file_lines', k) } :
              out_file' = out_file \o TextAt(file_lines', S) ]_vars

\* C2 witness: a file whose marker line is followed by a line no filter would drop
\* has been processed.
C2_Witness ==
    /\ pc = "loop"
    /\ opens # <<>>
    /\ file_lines = <<Marker, "fn f(){}\n">>

\* C3: the text appended for a file is exactly its lines that stand before the
\* first marker line and hold none of "use ", "mod ", "///", verbatim and in order.
C3_EmittedIff ==
    [][ FileStep => out_file' = out_file \o TextAt(file_lines', Emitted(file_lines')) ]_vars

\* C3 witness: a file with a line holding "mod " away from its start and a line to
\* keep has been processed.
C3_Witness ==
    /\ pc = "loop"
    /\ opens # <<>>
    /\ file_lines = <<"pub mod b;\n", "fn f(){}\n">>

\* C4: the file set is the scanned files in discovery order with the entry point
\* last; the loop takes the paths in that order, one per step; what a file
\* contributes is appended after everything written before, and is made of lines
\* of that file in their original order.
C4_SegmentsInOrder ==
    [][ /\ pc' \notin {"start", "parsed"} => paths' = Append(tree, argv)
        /\ pc = "loop" => i' \in {i, i + 1}
        /\ (pc = "loop" /\ out_file' # out_file) =>
              /\ i' = i + 1
              /\ opens' = Append(opens, paths[i])
              /\ \E S \in SUBSET (1..Len(file_lines')) :
                    out_file' = out_file \o TextAt(file_lines', S) ]_vars

\* C4 witness: the scanned file and then the entry point have each contributed,
\* the entry point two lines.
C4_Witness ==
    /\ pc = "done"
    /\ paths = <<"src/a.rs", "main.rs">>
    /\ out_file = PreludeText \o "    #[cfg(test)]\n" \o "fn f(){}\n" \o "    #[cfg(test)]\n"

\* C5: a step of the loop on a path that contains "/bin/" leaves the output as it
\* is, also when the file exists, is readable and holds a line that would be kept.
C5_BinContributesNothing ==
    [][ (pc = "loop" /\ i <= Len(paths) /\ paths[i] # None /\ InBinDir(paths[i])) =>
           out_file' = out_file ]_vars

\* C5 witness: a run over a scanned and an entry path under /bin/, both readable
\* with a line to keep, ended with the prelude alone.
C5_Witness ==
    /\ pc = "done"
    /\ paths = <<"src/bin/b.rs", "src/bin/main.rs">>
    /\ \A k \in 1..2 : fs[paths[k]] = FileOf(<<"fn f(){}\n">>)
    /\ out_file = PreludeText

\* C6 as stated: a run ends in done only if the scan root exists, every path it
\* opened was readable and the entry point exists.
C6_Original ==
    pc = "done" =>
        /\ root_exists
        /\ \A p \in Range(opens) : fs[p].kind \notin {"missing", "denied"}
        /\ argv # None => fs[argv].kind # "missing"

\* C6 amended: a path that is opened (one without "/bin/", scanned or entry
\* point) and is missing or unreadable ends the run with the file-not-found or
\* permission error; a run that ends in done has opened every path without
\* "/bin/" of its file set and found each readable.
C6_OpenedPathFails ==
    /\ \A p \in Range(opens) :
          fs[p].kind \in {"missing", "denied"} =>
              /\ pc = "abort"
              /\ err = (IF fs[p].kind = "missing" THEN "FileNotFoundError"
                        ELSE "PermissionError")
    /\ pc = "done" =>
          \A p \in Listed(tree, argv) :
              NotInBin(p) => p \in Range(opens) /\ fs[p].kind \notin {"missing", "denied"}

\* C6 witness: the entry point main.rs does not exist and the run aborted on it.
C6_Witness ==
    /\ pc = "abort"
    /\ err = "FileNotFoundError"
    /\ argv = "main.rs"
    /\ fs[argv].kind = "missing"
    /\ paths[i] = argv

\* C7: a run aborted by a read failure stopped at the first path that could not
\* be read: that path is the last one opened and was opened once, the handle is
\* closed, and the output holds the prelude and the whole contributions of the
\* paths before it, nothing else.
C7_AbortAtFailingFile ==
    (pc = "abort" /\ err \in ReadErrors) =>
        /\ handle = "closed"
        /\ fs[paths[i]].kind # "file"
        /\ \A k \in 1..(i - 1) : NotInBin(paths[k]) => fs[paths[k]].kind = "file"
        /\ opens = SelectSeq(SubSeq(paths, 1, i), NotInBin)
        /\ out_file = PreludeText \o Body(SubSeq(paths, 1, i - 1))

\* C7 witness: the scanned file contributed a line and the entry point, read
\* after it, was undecodable.
C7_Witness ==
    /\ pc = "abort"
    /\ err = "UnicodeDecodeError"
    /\ paths = <<"src/a.rs", "main.rs">>
    /\ i = 2
    /\ out_file = PreludeText \o "fn f(){}\n"

\* C8 as stated: a run started without --main_path never opens the output file
\* and never opens a file to read.
C8_RejectedAtCommandSurface ==
    argv = None => (handle = "none" /\ opens = <<>>)

\* C9: a run that follows another on the same inputs ends with the output the
\* one before ended with.
C9_Idempotent ==
    (run > 1 /\ Ended) => out_file = prev

\* C9 witness: a second run ended in done with both the scanned file and the
\* entry point read.
C9_Witness ==
    /\ run = 2
    /\ pc = "done"
    /\ Len(opens) = 2
    /\ out_file # PreludeText

\* C10: no path that contains "/bin/" is ever opened, and a run given its entry
\* point whose other paths are all readable ends in done with the output of the
\* file set without the "/bin/" paths, whatever the state of those paths.
C10_BinNeverOpened ==
    /\ \A p \in Range(opens) : NotInBin(p)
    /\ (Ended /\ argv # None
          /\ \A p \in Listed(tree, argv) : NotInBin(p) => fs[p].kind = "file") =>
          /\ pc = "done"
          /\ out_file = PreludeText \o Body(SelectSeq(Append(tree, argv), NotInBin))

\* C10 witness: a run ended in done although the scanned path under /bin/ does
\* not exist, and the entry point contributed.
C10_Witness ==
    /\ pc = "done"
    /\ paths = <<"src/bin/b.rs", "main.rs">>
    /\ fs["src/bin/b.rs"].kind = "missing"
    /\ out_file = PreludeText \o "fn f(){}\n"

====
